---- MODULE Spec2Model ----
(***************************************************************************)
(* Model of the command line calculator, final revision                    *)
(* (src/calculator.cpp from line 281): Lexer::Scan, Parser::Parse with its *)
(* recursive descent (Term, Factor, Primary, Consume), the Evaluate        *)
(* methods of the expression classes, the stages of ProcessInput and the  *)
(* loop of main that reads the lines.                                      *)
(*                                                                         *)
(* Conventions.  A source line is a sequence of one-character strings.     *)
(* Offsets are 0-based as in the code: CharAt(source, i) is source[i].     *)
(* A float is modelled by the exact rational it denotes (record num/den,   *)
(* in lowest terms), with den = 0 for the IEEE special values: num = 1 is  *)
(* +inf, num = -1 is -inf, num = 0 is NaN.  Rounding to 24 bits of         *)
(* mantissa and the sign of zero are not modelled; of the range of float   *)
(* only the overflow that makes std::stof throw is.  Source lines are over *)
(* 7-bit characters (std::isspace is given a plain char); the vertical tab *)
(* has no string escape here and is left out of the whitespace.            *)
(***************************************************************************)
EXTENDS Integers, Sequences, FiniteSets, TLC

\* F applied to the value of v, which is computed once
Then(v, F(_)) == CHOOSE r \in {F(x) : x \in {v}} : TRUE

\* ------------------------------------------------------------------------
\* Bounds of the model
\* ------------------------------------------------------------------------

\* every source line over Alphabet of at most MaxLen characters is an input
MaxLen == 3

\* every source line over ExprAlphabet of at most MaxExprLen characters is an input
MaxExprLen == 5

\* number of memory cells after the end of the token vector whose content is
\* chosen freely; cells further away read as no token at all
JunkLen == 2

\* ------------------------------------------------------------------------
\* Characters
\* ------------------------------------------------------------------------

Digits == {"0", "1", "2", "3", "4", "5", "6", "7", "8", "9"}

WhiteSpaceChars == {" ", "\t", "\n", "\r", "\f"}

OperatorChars == {"+", "-", "*", "/", "(", ")"}

\* what std::string::operator[] returns at index size()
NUL == "NUL"

CharAt(source, i) == IF i < Len(source) THEN source[i + 1] ELSE NUL

IsDigit(ch) == ch \in Digits

IsWhiteSpace(ch) == ch \in WhiteSpaceChars

DigitValue(ch) ==
    CASE ch = "0" -> 0 [] ch = "1" -> 1 [] ch = "2" -> 2 [] ch = "3" -> 3
      [] ch = "4" -> 4 [] ch = "5" -> 5 [] ch = "6" -> 6 [] ch = "7" -> 7
      [] ch = "8" -> 8 [] ch = "9" -> 9

\* ------------------------------------------------------------------------
\* Floats
\* ------------------------------------------------------------------------

Abs(n) == IF n < 0 THEN -n ELSE n

Sign(n) == IF n < 0 THEN -1 ELSE IF n > 0 THEN 1 ELSE 0

RECURSIVE GCD(_, _)
GCD(a, b) == IF b = 0 THEN a ELSE GCD(b, a % b)

Float(n, d) ==
    IF d = 0 THEN [num |-> Sign(n), den |-> 0]
    ELSE LET g == GCD(Abs(n), Abs(d))
         IN  [num |-> Sign(d) * (n \div g), den |-> Abs(d) \div g]

Zero == Float(0, 1)

PlusInf == [num |-> 1, den |-> 0]

MinusInf == [num |-> -1, den |-> 0]

NaN == [num |-> 0, den |-> 0]

IsFinite(x) == x.den # 0

FAdd(a, b) ==
    IF IsFinite(a) /\ IsFinite(b) THEN Float(a.num * b.den + b.num * a.den, a.den * b.den)
    ELSE IF a = NaN \/ b = NaN THEN NaN
    ELSE IF ~IsFinite(a) /\ ~IsFinite(b) THEN (IF a = b THEN a ELSE NaN)
    ELSE IF ~IsFinite(a) THEN a ELSE b

FNeg(a) == [num |-> -a.num, den |-> a.den]

FSub(a, b) == FAdd(a, FNeg(b))

FMul(a, b) ==
    IF IsFinite(a) /\ IsFinite(b) THEN Float(a.num * b.num, a.den * b.den)
    ELSE IF a = NaN \/ b = NaN \/ a.num = 0 \/ b.num = 0 THEN NaN
    ELSE [num |-> Sign(a.num) * Sign(b.num), den |-> 0]

\* a division that yields zero for a divisor that is zero
FDivZeroChecked(a, b) ==
    IF IsFinite(b) /\ b.num = 0 THEN Zero
    ELSE IF IsFinite(a) /\ IsFinite(b) THEN Float(a.num * b.den, a.den * b.num)
    ELSE IF a = NaN \/ b = NaN THEN NaN
    ELSE IF ~IsFinite(a) /\ ~IsFinite(b) THEN NaN
    ELSE IF ~IsFinite(a) THEN [num |-> a.num * (IF b.num < 0 THEN -1 ELSE 1), den |-> 0]
    ELSE Zero

FDiv(a, b) ==
    IF IsFinite(a) /\ IsFinite(b) THEN Float(a.num * b.den, a.den * b.num)
    ELSE IF a = NaN \/ b = NaN THEN NaN
    ELSE IF ~IsFinite(a) /\ ~IsFinite(b) THEN NaN
    ELSE IF ~IsFinite(a) THEN [num |-> a.num * (IF b.num < 0 THEN -1 ELSE 1), den |-> 0]
    ELSE Zero

\* the value of the decimal digits s[1..n]
RECURSIVE DigitsValue(_, _)
DigitsValue(s, n) ==
    IF n = 0 THEN 0 ELSE 10 * DigitsValue(s, n - 1) + DigitValue(s[n])

RECURSIVE Pow10(_)
Pow10(k) == IF k = 0 THEN 1 ELSE 10 * Pow10(k - 1)

\* the length of the run of digits of s that starts at index from
DigitRun(s, from) ==
    CHOOSE k \in 0..(Len(s) - from + 1) :
        /\ \A m \in from..(from + k - 1) : IsDigit(s[m])
        /\ from + k > Len(s) \/ ~IsDigit(s[from + k])

\* the decimal digits of 2^128 - 2^103, the least value that rounds to a float
\* beyond FLT_MAX = 2^128 - 2^104 (halfway to 2^128, a tie goes to the even
\* mantissa above)
FloatOverflowDigits ==
    << "3", "4", "0", "2", "8", "2", "3", "5", "6", "7", "7", "9", "7",
       "3", "3", "6", "6", "1", "6", "3", "7", "5", "3", "9", "3", "9",
       "5", "4", "5", "8", "1", "4", "2", "5", "6", "8", "4", "4", "8" >>

\* the digits s without their leading zeros
RECURSIVE StripZeros(_)
StripZeros(s) == IF s # <<>> /\ Head(s) = "0" THEN StripZeros(Tail(s)) ELSE s

\* a >= b for two runs of digits of the same length
DigitsGeq(a, b) ==
    \/ a = b
    \/ \E i \in 1..Len(a) :
          /\ SubSeq(a, 1, i - 1) = SubSeq(b, 1, i - 1)
          /\ DigitValue(a[i]) > DigitValue(b[i])

\* std::stof throws std::out_of_range: strtof reports ERANGE for a value that
\* rounds beyond FLT_MAX (the range error of a value too small for a normal
\* float is not modelled)
StofOutOfRange(s) ==
    /\ Len(s) >= Len(FloatOverflowDigits)
    /\ LET int == StripZeros(SubSeq(s, 1, DigitRun(s, 1)))
       IN  \/ Len(int) > Len(FloatOverflowDigits)
           \/ Len(int) = Len(FloatOverflowDigits) /\ DigitsGeq(int, FloatOverflowDigits)

\* std::stof on a string that begins with a digit and is in range: the value
\* of its longest prefix of the shape digit+ ('.' digit*)?
StoF(s) ==
    LET n    == DigitRun(s, 1)
        int  == SubSeq(s, 1, n)
        frac == IF n < Len(s) /\ s[n + 1] = "."
                THEN SubSeq(s, n + 2, n + 1 + DigitRun(s, n + 2))
                ELSE <<>>
    IN  Float(DigitsValue(int, Len(int)) * Pow10(Len(frac)) + DigitsValue(frac, Len(frac)),
              Pow10(Len(frac)))

\* ------------------------------------------------------------------------
\* Error and Token
\* ------------------------------------------------------------------------

ErrorTypes == {"NO_ERROR", "INVALID_CHAR", "INVALID_TOKEN", "END_OF_STREAM"}

Error(type, location) == [type |-> type, location |-> location]

IsError(error) == error.type # "NO_ERROR"

TokenTypes == {"ADD", "SUB", "MUL", "DIV", "LITERAL", "RIGHT_PAREN", "LEFT_PAREN"}

\* Token(Type): literal_value is left unset by this constructor and is never
\* read for such a token; the model gives it the value Zero
OpToken(type) == [token_type |-> type, literal_value |-> Zero]

LiteralToken(value) == [token_type |-> "LITERAL", literal_value |-> value]

CharToken(ch) ==
    CASE ch = "+" -> OpToken("ADD")
      [] ch = "-" -> OpToken("SUB")
      [] ch = "*" -> OpToken("MUL")
      [] ch = "/" -> OpToken("DIV")
      [] ch = "(" -> OpToken("LEFT_PAREN")
      [] ch = ")" -> OpToken("RIGHT_PAREN")

\* ------------------------------------------------------------------------
\* Lexer
\* ------------------------------------------------------------------------

\* position, tokens and token_positions are the fields of the class; error is
\* the Error that Scan returned, thrown tells that an exception left Scan
\* instead, iterations counts the iterations of the loop of Scan
NewLexer == [position |-> 0, tokens |-> <<>>, token_positions |-> <<>>,
             error |-> Error("NO_ERROR", 0), thrown |-> FALSE, iterations |-> 0]

\* the loop of GetLiteral without the flag has_decimal_point
RECURSIVE LiteralEndAnyDots(_, _, _)
LiteralEndAnyDots(source, position, has_decimal_point) ==
    LET ch == CharAt(source, position)
    IN  IF IsDigit(ch) \/ ch = "."
        THEN LiteralEndAnyDots(source, position + 1, has_decimal_point)
        ELSE position

\* the while loop of GetLiteral: the cursor after the literal
RECURSIVE LiteralEnd(_, _, _)
LiteralEnd(source, position, has_decimal_point) ==
    LET ch == CharAt(source, position)
    IN  IF IsDigit(ch) \/ (~has_decimal_point /\ ch = ".")
        THEN LiteralEnd(source, position + 1, has_decimal_point \/ ch = ".")
        ELSE position

\* GetLiteral that lets a literal begin with '.'
GetLiteralLeadingDot(source, position) ==
    LET end == LiteralEnd(source, position, FALSE)
    IN  IF ~(IsDigit(CharAt(source, position)) \/ CharAt(source, position) = ".")
        THEN [value |-> Zero, success |-> FALSE, position |-> position, thrown |-> FALSE]
        ELSE IF StofOutOfRange(SubSeq(source, position + 1, end))
        THEN [value |-> Zero, success |-> FALSE, position |-> end, thrown |-> TRUE]
        ELSE [value |-> StoF(SubSeq(source, position + 1, end)),
              success |-> TRUE, position |-> end, thrown |-> FALSE]

\* the result of GetLiteral with the cursor it leaves; thrown: std::stof threw
\* std::out_of_range, which GetLiteral does not catch
GetLiteral(source, position) ==
    IF ~IsDigit(CharAt(source, position))
    THEN [value |-> Zero, success |-> FALSE, position |-> position, thrown |-> FALSE]
    ELSE LET end == LiteralEnd(source, position, FALSE)
         IN  IF StofOutOfRange(SubSeq(source, position + 1, end))
             THEN [value |-> Zero, success |-> FALSE, position |-> end, thrown |-> TRUE]
             ELSE [value |-> StoF(SubSeq(source, position + 1, end)),
                   success |-> TRUE, position |-> end, thrown |-> FALSE]

\* the cursor recorded after it has moved
SingleCharTokenLate(lx, ch) ==
    [lx EXCEPT !.tokens = Append(@, CharToken(ch)),
               !.token_positions = Append(@, lx.position + 1),
               !.position = @ + 1]

\* the cases '+' '-' '*' '/' '(' ')' of Scan
SingleCharToken(lx, ch) ==
    [lx EXCEPT !.tokens = Append(@, CharToken(ch)),
               !.token_positions = Append(@, lx.position),
               !.position = @ + 1]

\* the while loop of Scan, from the state lx of the lexer
RECURSIVE ScanLoop(_, _)
ScanLoop(source, lx) ==
    IF ~(lx.position < Len(source))
    THEN [lx EXCEPT !.error = Error("NO_ERROR", 0)]
    ELSE LET ch == CharAt(source, lx.position)
             Continue(next) == ScanLoop(source, next)
             it == [lx EXCEPT !.iterations = @ + 1]
         IN  IF IsWhiteSpace(ch)
             THEN Then([it EXCEPT !.position = @ + 1], Continue)
             ELSE IF ch \in OperatorChars
             THEN Then(SingleCharToken(it, ch), Continue)
             ELSE LET pushed == [it EXCEPT !.token_positions = Append(@, it.position)]
                      Literal(lit) ==
                          IF lit.thrown
                          THEN [pushed EXCEPT !.position = lit.position, !.thrown = TRUE]
                          ELSE IF ~lit.success
                          THEN [pushed EXCEPT !.error = Error("INVALID_CHAR", it.position)]
                          ELSE Then([pushed EXCEPT !.position = lit.position,
                                                   !.tokens = Append(@, LiteralToken(lit.value))],
                                    Continue)
                  IN  Then(GetLiteral(source, it.position), Literal)

LexerScan(source) == ScanLoop(source, NewLexer)

\* ------------------------------------------------------------------------
\* Expression classes and their Evaluate methods
\* ------------------------------------------------------------------------

\* the null pointer
NoExpr == [kind |-> "null"]

LiteralExpression(value) == [kind |-> "Literal", value |-> value]

BinaryExpression(kind, lhs, rhs) == [kind |-> kind, lhs |-> lhs, rhs |-> rhs]

AddExpression(lhs, rhs) == BinaryExpression("Add", lhs, rhs)

SubtractExpression(lhs, rhs) == BinaryExpression("Subtract", lhs, rhs)

MultiplyExpression(lhs, rhs) == BinaryExpression("Multiply", lhs, rhs)

DivideExpression(lhs, rhs) == BinaryExpression("Divide", lhs, rhs)

RECURSIVE Evaluate(_)
Evaluate(expr) ==
    CASE expr.kind = "Literal"  -> expr.value
      [] expr.kind = "Add"      -> FAdd(Evaluate(expr.lhs), Evaluate(expr.rhs))
      [] expr.kind = "Subtract" -> FSub(Evaluate(expr.lhs), Evaluate(expr.rhs))
      [] expr.kind = "Multiply" -> FMul(Evaluate(expr.lhs), Evaluate(expr.rhs))
      [] expr.kind = "Divide"   -> FDiv(Evaluate(expr.lhs), Evaluate(expr.rhs))

\* ------------------------------------------------------------------------
\* Parser
\*
\* The recursive descent works on mem, the memory image of the token vector:
\* the size tokens of the vector followed by the cells that lie after its end.
\* tokens[position] is MemAt(mem, position); the code does not check the
\* index, so a read at position >= size delivers what the memory holds there.
\*
\* A parser state is a record: position and expr are the fields of the class
\* (expr here the pointer a function returns); thrown tells that `throw 1` was
\* executed and site in which function; oob that some tokens[position] was
\* read with position >= size; grouped is the set of the expressions that
\* Primary returned from its '(' branch; allocated counts the executions of
\* `new`; steps counts the calls of Primary and the iterations of the loops of
\* Term and Factor.
\* ------------------------------------------------------------------------

\* a cell that holds no value of Token::Type
NoToken == [token_type |-> "NONE", literal_value |-> Zero]

MemAt(mem, position) == IF position < Len(mem) THEN mem[position + 1] ELSE NoToken

NewParser == [position |-> 0, expr |-> NoExpr, thrown |-> FALSE, site |-> "",
              oob |-> FALSE, grouped |-> {}, allocated |-> 0, steps |-> 0]

IsAtEnd(size, position) == position = size

Check(mem, size, position, type) ==
    IF IsAtEnd(size, position) THEN FALSE
    ELSE MemAt(mem, position).token_type = type

\* Check reads tokens[position] unless IsAtEnd
CheckReads(size, s) == [s EXCEPT !.oob = @ \/ s.position > size]

Throw(s, site) == [s EXCEPT !.thrown = TRUE, !.site = site, !.expr = NoExpr]

\* Consume that moves the cursor before it tests the token
ConsumeAdvanceFirst(mem, size, s, type) ==
    IF MemAt(mem, s.position).token_type # type
    THEN Throw([s EXCEPT !.oob = @ \/ s.position >= size, !.position = @ + 1], "Consume")
    ELSE [s EXCEPT !.oob = @ \/ s.position >= size, !.position = @ + 1]

Consume(mem, size, s, type) ==
    IF MemAt(mem, s.position).token_type # type
    THEN Throw([s EXCEPT !.oob = @ \/ s.position >= size], "Consume")
    ELSE [s EXCEPT !.oob = @ \/ s.position >= size, !.position = @ + 1]

RECURSIVE Term(_, _, _)
RECURSIVE TermLoop(_, _, _)
RECURSIVE Factor(_, _, _)
RECURSIVE FactorLoop(_, _, _)
RECURSIVE Primary(_, _, _)

\* position++ after a successful Match
Advance(size, s) == [CheckReads(size, s) EXCEPT !.position = @ + 1]

\* one more call of Primary, one more iteration of a loop
Step(s) == [s EXCEPT !.steps = @ + 1]

\* Primary that moves the cursor before it raises the error
PrimaryAdvanceFirst(mem, size, s) ==
    LET Nested(from) == Term(mem, size, from)
        Group(c) == IF c.thrown THEN c ELSE [c EXCEPT !.grouped = @ \cup {c.expr}]
        Close(t) == IF t.thrown THEN t ELSE Then(Consume(mem, size, t, "RIGHT_PAREN"), Group)
    IN  IF Check(mem, size, s.position, "LITERAL")
        THEN [Step(Advance(size, s)) EXCEPT
                  !.expr = LiteralExpression(MemAt(mem, s.position).literal_value),
                  !.allocated = @ + 1]
        ELSE IF Check(mem, size, s.position, "LEFT_PAREN")
        THEN Then(Then(Step(Advance(size, s)), Nested), Close)
        ELSE Throw(Step(Advance(size, s)), "Primary")

Primary(mem, size, s) ==
    LET Nested(from) == Term(mem, size, from)
        Group(c) == IF c.thrown THEN c ELSE [c EXCEPT !.grouped = @ \cup {c.expr}]
        Close(t) == IF t.thrown THEN t ELSE Then(Consume(mem, size, t, "RIGHT_PAREN"), Group)
    IN  IF Check(mem, size, s.position, "LITERAL")
        THEN [Step(Advance(size, s)) EXCEPT
                  !.expr = LiteralExpression(MemAt(mem, s.position).literal_value),
                  !.allocated = @ + 1]
        ELSE IF Check(mem, size, s.position, "LEFT_PAREN")
        THEN Then(Then(Step(Advance(size, s)), Nested), Close)
        ELSE Throw(Step(CheckReads(size, s)), "Primary")

\* the loop of Factor with a whole term as the right operand
FactorLoopTermOperand(mem, size, s) ==
    LET type == MemAt(mem, s.position).token_type
        Operand(from) == Term(mem, size, from)
        Continue(next) == FactorLoop(mem, size, next)
        Fold(rhs) ==
            IF rhs.thrown THEN rhs
            ELSE Then([rhs EXCEPT !.allocated = @ + 1,
                                  !.expr = IF type = "MUL"
                                           THEN MultiplyExpression(s.expr, rhs.expr)
                                           ELSE DivideExpression(s.expr, rhs.expr)],
                      Continue)
    IN  IF Check(mem, size, s.position, "MUL") \/ Check(mem, size, s.position, "DIV")
        THEN Then(Then(Step(Advance(size, s)), Operand), Fold)
        ELSE CheckReads(size, s)

\* FactorLoop that builds its node with the operands exchanged
FactorLoopOperandsSwapped(mem, size, s) ==
    LET type == MemAt(mem, s.position).token_type
        Operand(from) == Primary(mem, size, from)
        Continue(next) == FactorLoop(mem, size, next)
        Fold(rhs) ==
            IF rhs.thrown THEN rhs
            ELSE Then([rhs EXCEPT !.allocated = @ + 1,
                                  !.expr = IF type = "MUL"
                                           THEN MultiplyExpression(rhs.expr, s.expr)
                                           ELSE DivideExpression(rhs.expr, s.expr)],
                      Continue)
    IN  IF Check(mem, size, s.position, "MUL") \/ Check(mem, size, s.position, "DIV")
        THEN Then(Then(Step(Advance(size, s)), Operand), Fold)
        ELSE CheckReads(size, s)

\* the while loop of Factor; s.expr is the local expr
FactorLoop(mem, size, s) ==
    LET type == MemAt(mem, s.position).token_type
        Operand(from) == Primary(mem, size, from)
        Continue(next) == FactorLoop(mem, size, next)
        Fold(rhs) ==
            IF rhs.thrown THEN rhs
            ELSE Then([rhs EXCEPT !.allocated = @ + 1,
                                  !.expr = IF type = "MUL"
                                           THEN MultiplyExpression(s.expr, rhs.expr)
                                           ELSE DivideExpression(s.expr, rhs.expr)],
                      Continue)
    IN  IF Check(mem, size, s.position, "MUL") \/ Check(mem, size, s.position, "DIV")
        THEN Then(Then(Step(Advance(size, s)), Operand), Fold)
        ELSE CheckReads(size, s)

Factor(mem, size, s) ==
    LET Loop(first) == IF first.thrown THEN first ELSE FactorLoop(mem, size, first)
    IN  Then(Primary(mem, size, s), Loop)

\* the loop of Term as a right recursion: term := factor (('+' | '-') term)?
TermLoopRightRecursive(mem, size, s) ==
    LET type == MemAt(mem, s.position).token_type
        Operand(from) == Term(mem, size, from)
        Fold(rhs) ==
            IF rhs.thrown THEN rhs
            ELSE [rhs EXCEPT !.allocated = @ + 1,
                             !.expr = IF type = "ADD"
                                      THEN AddExpression(s.expr, rhs.expr)
                                      ELSE SubtractExpression(s.expr, rhs.expr)]
    IN  IF Check(mem, size, s.position, "ADD") \/ Check(mem, size, s.position, "SUB")
        THEN Then(Then(Step(Advance(size, s)), Operand), Fold)
        ELSE CheckReads(size, s)

\* the loop of Term without the position++ that passes the operator
TermLoopKeepsOperator(mem, size, s) ==
    LET type == MemAt(mem, s.position).token_type
        Operand(from) == Factor(mem, size, from)
        Continue(next) == TermLoop(mem, size, next)
        Fold(rhs) ==
            IF rhs.thrown THEN rhs
            ELSE Then([rhs EXCEPT !.allocated = @ + 1,
                                  !.expr = IF type = "ADD"
                                           THEN AddExpression(s.expr, rhs.expr)
                                           ELSE SubtractExpression(s.expr, rhs.expr)],
                      Continue)
    IN  IF Check(mem, size, s.position, "ADD") \/ Check(mem, size, s.position, "SUB")
        THEN Then(Then(Step(CheckReads(size, s)), Operand), Fold)
        ELSE CheckReads(size, s)

\* the while loop of Term; s.expr is the local expr
TermLoop(mem, size, s) ==
    LET type == MemAt(mem, s.position).token_type
        Operand(from) == Factor(mem, size, from)
        Continue(next) == TermLoop(mem, size, next)
        Fold(rhs) ==
            IF rhs.thrown THEN rhs
            ELSE Then([rhs EXCEPT !.allocated = @ + 1,
                                  !.expr = IF type = "ADD"
                                           THEN AddExpression(s.expr, rhs.expr)
                                           ELSE SubtractExpression(s.expr, rhs.expr)],
                      Continue)
    IN  IF Check(mem, size, s.position, "ADD") \/ Check(mem, size, s.position, "SUB")
        THEN Then(Then(Step(Advance(size, s)), Operand), Fold)
        ELSE CheckReads(size, s)

Term(mem, size, s) ==
    LET Loop(first) == IF first.thrown THEN first ELSE TermLoop(mem, size, first)
    IN  Then(Factor(mem, size, s), Loop)

\* token_positions[position]; junkpos is what an index past the end delivers
PositionAt(token_positions, position, junkpos) ==
    IF position < Len(token_positions) THEN token_positions[position + 1] ELSE junkpos

\* Parse without the test of the cursor after a complete term
ParseNoLeftoverCheck(tokens, token_positions, source, junk, junkpos) ==
    LET size == Len(tokens)
        Report(t) ==
            IF t.thrown
            THEN IF IsAtEnd(size, t.position)
                 THEN [parser |-> t, error |-> Error("END_OF_STREAM", Len(source))]
                 ELSE [parser |-> t,
                       error |-> Error("INVALID_TOKEN",
                                       PositionAt(token_positions, t.position, junkpos))]
            ELSE [parser |-> t, error |-> Error("NO_ERROR", 0)]
    IN  Then(Term(tokens \o junk, size, NewParser), Report)

\* Parse whose handler reports the end of the stream at the number of tokens
ParseEndAtTokenCount(tokens, token_positions, source, junk, junkpos) ==
    LET size == Len(tokens)
        Report(t) ==
            IF t.thrown
            THEN IF IsAtEnd(size, t.position)
                 THEN [parser |-> t, error |-> Error("END_OF_STREAM", size)]
                 ELSE [parser |-> t,
                       error |-> Error("INVALID_TOKEN",
                                       PositionAt(token_positions, t.position, junkpos))]
            ELSE IF t.position # size
            THEN [parser |-> t,
                  error |-> Error("INVALID_TOKEN",
                                  PositionAt(token_positions, t.position, junkpos))]
            ELSE [parser |-> t, error |-> Error("NO_ERROR", 0)]
    IN  Then(Term(tokens \o junk, size, NewParser), Report)

\* Parse whose handler does not ask IsAtEnd
ParseAlwaysInvalidToken(tokens, token_positions, source, junk, junkpos) ==
    LET size == Len(tokens)
        Report(t) ==
            IF t.thrown \/ t.position # size
            THEN [parser |-> t,
                  error |-> Error("INVALID_TOKEN",
                                  PositionAt(token_positions, t.position, junkpos))]
            ELSE [parser |-> t, error |-> Error("NO_ERROR", 0)]
    IN  Then(Term(tokens \o junk, size, NewParser), Report)

\* Parser::Parse: the parser state it leaves, with the Error it returns
Parse(tokens, token_positions, source, junk, junkpos) ==
    LET size == Len(tokens)
        Report(t) ==
            IF t.thrown
            THEN IF IsAtEnd(size, t.position)
                 THEN [parser |-> t, error |-> Error("END_OF_STREAM", Len(source))]
                 ELSE [parser |-> t,
                       error |-> Error("INVALID_TOKEN",
                                       PositionAt(token_positions, t.position, junkpos))]
            ELSE IF t.position # size
            THEN [parser |-> t,
                  error |-> Error("INVALID_TOKEN",
                                  PositionAt(token_positions, t.position, junkpos))]
            ELSE [parser |-> t, error |-> Error("NO_ERROR", 0)]
    IN  Then(Term(tokens \o junk, size, NewParser), Report)

\* ------------------------------------------------------------------------
\* ProcessInput as a state machine
\* ------------------------------------------------------------------------

\* source, lexer, parser, error: the locals of ProcessInput; output: what the
\* call has written to std::cout; pc: the statement it is at ("terminated":
\* an exception has left main); history: the lines main has processed before
\* this one, each with what ProcessInput wrote for it; tree: the expression the
\* line was rendered from, if it was
VARIABLES source, pc, lexer, parser, error, output, history, tree

vars == <<source, pc, lexer, parser, error, output, history, tree>>

SeqsUpTo(S, n) == UNION {[1..k -> S] : k \in 0..n}

\* one character of each class the lexer tells apart, and every operator
Alphabet == {"1", ".", "+", "-", "*", "/", "(", ")", " ", "a"}

\* the characters of well-formed expressions
ExprAlphabet == {"2", "+", "-", "*", "/", "(", ")"}

\* the lines named by the tests of the program and by its specification
Examples ==
    { <<"3", "a">>,
      <<"2", "3", ".", "2", "3", ".", "3">>,
      <<"3", "+", "+", "3">>,
      <<"(", ")">>,
      <<"(", ")", ")">>,
      <<"(">>,
      <<"(", "2", "+", "1", ")", ")">>,
      <<"2", "3", " ", "2", "3">>,
      <<".", "2", "3", "4">>,
      <<"8", " ", "-", " ", "3", " ", "-", " ", "2">>,
      <<"2", " ", "+", " ", "3", " ", "*", " ", "4">>,
      <<"(", "2", " ", "+", " ", "3", ")", " ", "*", " ", "4">>,
      <<"1", " ", "/", " ", "0">>,
      <<"(", "2", " ", "3">>,
      <<"(", "2">>,
      <<"(", "2", "+", "1">>,
      <<"3", "+">>,
      <<"(", "a">>,
      <<"3", " ", "+", " ", "+", " ", "a">>,
      <<"(", "3", " ", "+", " ", "3", ")", " ", " ", "*", " ", "2", "/", " ",
        "(", "4", " ", "-", "1", ")">> }

Inputs == SeqsUpTo(Alphabet, MaxLen) \cup SeqsUpTo(ExprAlphabet, MaxExprLen) \cup Examples

\* what the cells after the end of the token vector may hold
JunkTokens ==
    {OpToken(t) : t \in TokenTypes \ {"LITERAL"}} \cup {LiteralToken(Float(7, 1)), NoToken}

\* Parse reads past the end of the token vector; the reads before the first
\* such read do not depend on what lies there
ReadsPastEnd(tokens) == Term(tokens, Len(tokens), NewParser).oob

Junks(tokens) == IF ReadsPastEnd(tokens) THEN [1..JunkLen -> JunkTokens] ELSE {<<>>}

\* what token_positions[position] may deliver past the end of that vector; it
\* is read only once the cursor has passed the end of the token vector
JunkPositions(tokens, junk, src) ==
    IF Term(tokens \o junk, Len(tokens), NewParser).position > Len(tokens)
    THEN 0..(Len(src) + 1)
    ELSE {0}

Init ==
    /\ source \in Inputs
    /\ pc = "scan"
    /\ lexer = NewLexer
    /\ parser = NewParser
    /\ error = Error("NO_ERROR", 0)
    /\ output = <<>>
    /\ history = <<>>
    /\ tree = NoExpr

\* ProcessInput that prints the error of Scan and goes on to Parse all the same
ScanWithoutReturn ==
    /\ pc = "scan"
    /\ lexer' = LexerScan(source)
    /\ error' = IF lexer'.thrown THEN error ELSE lexer'.error
    /\ output' = IF IsError(error') THEN Append(output, [kind |-> "error", error |-> error'])
                 ELSE output
    /\ pc' = IF lexer'.thrown THEN "terminated" ELSE "parse"
    /\ UNCHANGED <<source, parser, history, tree>>

\* Lexer lexer(input); Error error = lexer.Scan(); if (error) print it, return.
\* Nothing between Scan and main catches an exception that leaves Scan.
Scan ==
    /\ pc = "scan"
    /\ lexer' = LexerScan(source)
    /\ error' = IF lexer'.thrown THEN error ELSE lexer'.error
    /\ output' = IF IsError(error') THEN Append(output, [kind |-> "error", error |-> error'])
                 ELSE output
    /\ pc' = IF lexer'.thrown THEN "terminated"
             ELSE IF IsError(error') THEN "done" ELSE "parse"
    /\ UNCHANGED <<source, parser, history, tree>>

\* Parser parser(...); error = parser.Parse(); if (error) print it, return
ParseInput ==
    /\ pc = "parse"
    /\ \E junk \in Junks(lexer.tokens) :
          \E junkpos \in JunkPositions(lexer.tokens, junk, source) :
              LET r == Parse(lexer.tokens, lexer.token_positions, source, junk, junkpos)
              IN  /\ parser' = r.parser
                  /\ error' = r.error
    /\ output' = IF IsError(error') THEN Append(output, [kind |-> "error", error |-> error'])
                 ELSE output
    /\ pc' = IF IsError(error') THEN "done" ELSE "evaluate"
    /\ UNCHANGED <<source, lexer, history, tree>>

\* std::cout << parser.GetAST()->Evaluate()
EvaluateAST ==
    /\ pc = "evaluate"
    /\ output' = Append(output, [kind |-> "value", value |-> Evaluate(parser.expr)])
    /\ pc' = "done"
    /\ UNCHANGED <<source, lexer, parser, error, history, tree>>

Next == Scan \/ ParseInput \/ EvaluateAST

Spec == Init /\ [][Next]_vars

\* ------------------------------------------------------------------------
\* Lines rendered from expression trees
\* ------------------------------------------------------------------------

\* the number of operators of a rendered tree
MaxOps == 2

\* values of literals: zero, an integer, a value with a fraction
LiteralValues == {Float(0, 1), Float(1, 1), Float(5, 2)}

BinaryKinds == {"Add", "Subtract", "Multiply", "Divide"}

\* the expression trees with n operators
RECURSIVE TreesWith(_)
TreesWith(n) ==
    IF n = 0 THEN {LiteralExpression(v) : v \in LiteralValues}
    ELSE UNION {{BinaryExpression(k, l, r) :
                    k \in BinaryKinds, l \in TreesWith(i), r \in TreesWith(n - 1 - i)} :
                i \in 0..(n - 1)}

Trees == UNION {TreesWith(n) : n \in 0..MaxOps}

DigitChar(d) == CHOOSE ch \in Digits : DigitValue(ch) = d

\* the decimal digits of the natural number n
RECURSIVE RenderNat(_)
RenderNat(n) ==
    IF n < 10 THEN <<DigitChar(n)>> ELSE RenderNat(n \div 10) \o <<DigitChar(n % 10)>>

\* the k decimal digits of the natural number n < 10^k, with leading zeros
RECURSIVE RenderDigits(_, _)
RenderDigits(n, k) ==
    IF k = 0 THEN <<>> ELSE RenderDigits(n \div 10, k - 1) \o <<DigitChar(n % 10)>>

\* the number of decimal places of a fraction with denominator den
DecimalPlaces(den) == CHOOSE k \in 0..den : Pow10(k) % den = 0 /\ \A j \in 0..(k - 1) : Pow10(j) % den # 0

\* the text of a finite value v >= 0 whose decimal expansion ends
RenderFloat(v) ==
    LET k == DecimalPlaces(v.den)
    IN  IF k = 0 THEN RenderNat(v.num)
        ELSE RenderNat(v.num \div v.den) \o <<".">>
             \o RenderDigits(((v.num % v.den) * Pow10(k)) \div v.den, k)

OperatorChar(kind) ==
    CASE kind = "Add"      -> "+"
      [] kind = "Subtract" -> "-"
      [] kind = "Multiply" -> "*"
      [] kind = "Divide"   -> "/"

\* the text of a tree with every operator node in parentheses
RECURSIVE Render(_)
Render(expr) ==
    IF expr.kind = "Literal" THEN RenderFloat(expr.value)
    ELSE <<"(">> \o Render(expr.lhs) \o <<" ", OperatorChar(expr.kind), " ">>
         \o Render(expr.rhs) \o <<")">>

\* ProcessInput is called with the text of a tree, or with one of the examples
InitRoundTrip ==
    /\ \/ tree \in Trees /\ source = Render(tree)
       \/ tree = NoExpr /\ source \in Examples
    /\ pc = "scan"
    /\ lexer = NewLexer
    /\ parser = NewParser
    /\ error = Error("NO_ERROR", 0)
    /\ output = <<>>
    /\ history = <<>>

SpecRoundTrip == InitRoundTrip /\ [][Next]_vars

\* ------------------------------------------------------------------------
\* main: the loop that reads the lines
\* ------------------------------------------------------------------------

\* the number of lines of a session that ProcessInput is called with
MaxLines == 2

RECURSIVE TrimLeft(_)
TrimLeft(s) == IF s # <<>> /\ IsWhiteSpace(Head(s)) THEN TrimLeft(Tail(s)) ELSE s

RECURSIVE TrimRight(_)
TrimRight(s) ==
    IF s # <<>> /\ IsWhiteSpace(s[Len(s)]) THEN TrimRight(SubSeq(s, 1, Len(s) - 1)) ELSE s

Trim(s) == TrimRight(TrimLeft(s))

ExitLine == <<"e", "x", "i", "t">>

\* lines with a run of digits that std::stof cannot represent as a float
OverflowLines ==
    { FloatOverflowDigits,
      FloatOverflowDigits \o <<"0">>,
      <<"1", " ", "+", " ">> \o FloatOverflowDigits \o <<".", "5">> }

\* what getline may deliver: the examples, bare and between blanks, lines that
\* are empty once trimmed, the exit command, lines with a number out of range
RawLines ==
    Examples
    \cup {<<" ">> \o e \o <<" ", " ">> : e \in Examples}
    \cup {<<>>, <<" ">>, <<" ", " ">>}
    \cup {ExitLine, <<" ">> \o ExitLine \o <<" ">>, ExitLine \o <<" ", "1">>}
    \cup OverflowLines

\* after PrintInfo and the first prompt
InitMain ==
    /\ pc = "read"
    /\ source = <<>>
    /\ lexer = NewLexer
    /\ parser = NewParser
    /\ error = Error("NO_ERROR", 0)
    /\ output = <<>>
    /\ history = <<>>
    /\ tree = NoExpr

\* std::getline delivers a line: Trim(input); "exit" returns from main, an
\* empty line prints the prompt and continues, any other line is passed to
\* ProcessInput, whose locals are constructed anew
ReadLine ==
    /\ pc = "read"
    /\ Len(history) < MaxLines
    /\ \E raw \in RawLines :
          LET input == Trim(raw)
          IN  IF input = ExitLine
              THEN /\ pc' = "exited"
                   /\ UNCHANGED <<source, lexer, parser, error, output>>
              ELSE IF input = <<>>
              THEN /\ pc' = "read"
                   /\ UNCHANGED <<source, lexer, parser, error, output>>
              ELSE /\ pc' = "scan"
                   /\ source' = input
                   /\ lexer' = NewLexer
                   /\ parser' = NewParser
                   /\ error' = Error("NO_ERROR", 0)
                   /\ output' = <<>>
    /\ UNCHANGED <<history, tree>>

\* std::getline fails at the end of the input: the loop ends, main returns
EndOfInput ==
    /\ pc = "read"
    /\ pc' = "exited"
    /\ UNCHANGED <<source, lexer, parser, error, output, history, tree>>

\* ProcessInput has returned: std::cout << ">>> " and back to std::getline
NextPrompt ==
    /\ pc = "done"
    /\ pc' = "read"
    /\ history' = Append(history, [source |-> source, output |-> output])
    /\ UNCHANGED <<source, lexer, parser, error, output, tree>>

NextMain == ReadLine \/ EndOfInput \/ Scan \/ ParseInput \/ EvaluateAST \/ NextPrompt

SpecMain == InitMain /\ [][NextMain]_vars


\* ------------------------------------------------------------------------
\* Properties
\* ------------------------------------------------------------------------

Min(S) == CHOOSE m \in S : \A n \in S : m <= n

\* Scan has returned
Scanned == pc # "scan"

\* Parse has returned
Parsed == pc \in {"evaluate", "done"} /\ ~IsError(lexer.error)

\* tokens[i] and token_positions[i] of the lexer, i counted from 0
TokenType(i) == lexer.tokens[i + 1].token_type

TokenOffset(i) == lexer.token_positions[i + 1]

\* the '.' at offset i follows a run of digits that starts a literal
DotInLiteral(src, i) ==
    /\ CharAt(src, i) = "."
    /\ \E j \in 0..(i - 1) :
          /\ \A m \in j..(i - 1) : IsDigit(CharAt(src, m))
          /\ j = 0 \/ ~(IsDigit(CharAt(src, j - 1)) \/ CharAt(src, j - 1) = ".")

\* the offsets of the characters that are neither whitespace, nor an operator
\* or parenthesis, nor part of a literal begun at a digit (exact up to the
\* first of them)
BadOffsets(src) ==
    {i \in 0..(Len(src) - 1) :
        LET ch == CharAt(src, i)
        IN  ~(IsWhiteSpace(ch) \/ ch \in OperatorChars \/ IsDigit(ch) \/ DotInLiteral(src, i))}

C2_WholeSequenceConsumed ==
    Parsed =>
        /\ error.type = "NO_ERROR" => parser.position = Len(lexer.tokens)
        /\ (parser.expr # NoExpr /\ parser.position < Len(lexer.tokens)) =>
               error = Error("INVALID_TOKEN", TokenOffset(parser.position))

C2_Witness ==
    /\ Parsed
    /\ parser.expr # NoExpr
    /\ parser.position >= 1
    /\ parser.position < Len(lexer.tokens)
    /\ error.type = "INVALID_TOKEN"
    /\ error.location > parser.position

\* the parser asked for a primary expression with the cursor at `position`:
\* at the start, after an operator or after '('
PrimaryWantedAt(position) ==
    position = 0 \/ TokenType(position - 1) \in {"ADD", "SUB", "MUL", "DIV", "LEFT_PAREN"}

\* C3: when Primary raises the error with no token left, Parse returns
\* END_OF_STREAM located at the length of the source line.
C3_EndOfStreamWherePrimaryWanted ==
    (Parsed /\ parser.thrown /\ parser.site = "Primary"
            /\ parser.position = Len(lexer.tokens)) =>
        /\ error = Error("END_OF_STREAM", Len(source))
        /\ PrimaryWantedAt(parser.position)

C3_Witness ==
    /\ Parsed
    /\ parser.thrown /\ parser.site = "Primary"
    /\ parser.position = Len(lexer.tokens)
    /\ Len(lexer.tokens) >= 2
    /\ Len(source) > Len(lexer.tokens)
    /\ error.type = "END_OF_STREAM"

\* C4: when Primary raises the error at a token, that token is neither a
\* literal nor '(', it stands where a primary expression was wanted, and Parse
\* returns INVALID_TOKEN at the source offset of that token.
C4_UnexpectedTokenWherePrimaryWanted ==
    (Parsed /\ parser.thrown /\ parser.site = "Primary"
            /\ parser.position < Len(lexer.tokens)) =>
        /\ error = Error("INVALID_TOKEN", TokenOffset(parser.position))
        /\ TokenType(parser.position) \notin {"LITERAL", "LEFT_PAREN"}
        /\ PrimaryWantedAt(parser.position)

C4_Witness ==
    /\ Parsed
    /\ parser.thrown /\ parser.site = "Primary"
    /\ parser.position >= 1
    /\ parser.position < Len(lexer.tokens)
    /\ error.type = "INVALID_TOKEN"
    /\ error.location > parser.position

\* C5: when Consume raises the error at a token, that token follows a complete
\* nested term, it is not ')', and Parse returns INVALID_TOKEN at the source
\* offset of that token.
C5_UnexpectedTokenWhereParenWanted ==
    (Parsed /\ parser.thrown /\ parser.site = "Consume"
            /\ parser.position < Len(lexer.tokens)) =>
        /\ error = Error("INVALID_TOKEN", TokenOffset(parser.position))
        /\ parser.position >= 2
        /\ TokenType(parser.position - 1) \in {"LITERAL", "RIGHT_PAREN"}
        /\ TokenType(parser.position) \in {"LITERAL", "LEFT_PAREN"}

C5_Witness ==
    /\ Parsed
    /\ parser.thrown /\ parser.site = "Consume"
    /\ parser.position < Len(lexer.tokens)
    /\ error.type = "INVALID_TOKEN"
    /\ error.location > parser.position

IsLiteralText(src, s, e) ==
    \E d \in (s + 1)..e :
        /\ \A m \in s..(d - 1) : IsDigit(CharAt(src, m))
        /\ d = e \/ (CharAt(src, d) = "." /\ \A m \in (d + 1)..(e - 1) : IsDigit(CharAt(src, m)))

\* the end of the longest literal text that starts at offset s
MunchEnd(src, s) ==
    CHOOSE e \in (s + 1)..Len(src) :
        /\ IsLiteralText(src, s, e)
        /\ \A f \in (e + 1)..Len(src) : ~IsLiteralText(src, s, f)

\* where the lexer went on after token i: the next recorded offset, or the
\* final cursor
OffsetAfter(i) ==
    IF i + 1 < Len(lexer.token_positions) THEN TokenOffset(i + 1) ELSE lexer.position

\* C7: every literal token is the longest text of the shape digit+ ('.' digit*)?
\* that starts at its offset: its value is the value of that text, only
\* whitespace lies between the end of that text and the place where the lexer
\* went on, and a '.' right after it (a second '.') is reported as INVALID_CHAR
\* at its own offset; "23.23.3" gives the one literal 23.23 and INVALID_CHAR at 5.
C7_LiteralIsMaximalMunch ==
    Scanned =>
        /\ \A i \in 0..(Len(lexer.tokens) - 1) :
              TokenType(i) = "LITERAL" =>
                  LET s == TokenOffset(i)
                      e == MunchEnd(source, s)
                  IN  /\ IsDigit(CharAt(source, s))
                      /\ lexer.tokens[i + 1].literal_value = StoF(SubSeq(source, s + 1, e))
                      /\ e <= OffsetAfter(i)
                      /\ \A m \in e..(OffsetAfter(i) - 1) : IsWhiteSpace(CharAt(source, m))
                      /\ CharAt(source, e) = "." => lexer.error = Error("INVALID_CHAR", e)
        /\ source = <<"2", "3", ".", "2", "3", ".", "3">> =>
              /\ lexer.tokens = <<LiteralToken(Float(2323, 100))>>
              /\ lexer.error = Error("INVALID_CHAR", 5)

C7_Witness ==
    /\ Scanned
    /\ Len(lexer.tokens) >= 1
    /\ TokenType(Len(lexer.tokens) - 1) = "LITERAL"
    /\ lexer.tokens[Len(lexer.tokens)].literal_value.den > 1
    /\ lexer.error.type = "INVALID_CHAR"
    /\ CharAt(source, lexer.error.location) = "."

\* the character a token other than a literal is written with
TokenChar(type) ==
    CASE type = "ADD" -> "+" [] type = "SUB" -> "-" [] type = "MUL" -> "*"
      [] type = "DIV" -> "/" [] type = "LEFT_PAREN" -> "(" [] type = "RIGHT_PAREN" -> ")"

\* the offsets of a line without invalid character at which a token begins
TokenStarts(src) ==
    {i \in 0..(Len(src) - 1) :
        \/ CharAt(src, i) \in OperatorChars
        \/ /\ IsDigit(CharAt(src, i))
           /\ i = 0 \/ ~(IsDigit(CharAt(src, i - 1)) \/ CharAt(src, i - 1) = ".")}

\* C8: when Scan returns NO_ERROR there is one offset per token, the offsets
\* increase strictly and lie below the length of the line, offset i is where
\* token i begins (the character of an operator or parenthesis, the first digit
\* of a literal) and every beginning of a token is recorded; an empty or
\* all-whitespace line gives no token and NO_ERROR.
C8_OneOffsetPerToken ==
    Scanned =>
        /\ lexer.error.type = "NO_ERROR" =>
              /\ Len(lexer.token_positions) = Len(lexer.tokens)
              /\ \A i \in 0..(Len(lexer.tokens) - 1) :
                    /\ TokenOffset(i) < Len(source)
                    /\ i >= 1 => TokenOffset(i - 1) < TokenOffset(i)
                    /\ IF TokenType(i) = "LITERAL"
                       THEN TokenOffset(i) \in TokenStarts(source)
                            /\ IsDigit(CharAt(source, TokenOffset(i)))
                       ELSE CharAt(source, TokenOffset(i)) = TokenChar(TokenType(i))
              /\ {TokenOffset(i) : i \in 0..(Len(lexer.tokens) - 1)} = TokenStarts(source)
        /\ (\A m \in 0..(Len(source) - 1) : IsWhiteSpace(CharAt(source, m))) =>
              /\ lexer.error.type = "NO_ERROR"
              /\ lexer.tokens = <<>>
              /\ lexer.token_positions = <<>>

C8_Witness ==
    /\ Scanned
    /\ lexer.error.type = "NO_ERROR"
    /\ Len(lexer.tokens) >= 3
    /\ TokenType(0) = "LITERAL" /\ TokenType(1) # "LITERAL" /\ TokenType(2) = "LITERAL"
    /\ TokenOffset(1) > 1
    /\ TokenOffset(2) > TokenOffset(1) + 1

\* the expression class built for an operator token
ExprKind(type) ==
    CASE type = "ADD" -> "Add" [] type = "SUB" -> "Subtract"
      [] type = "MUL" -> "Multiply" [] type = "DIV" -> "Divide"

\* the tokens are literal (op literal)* with every op in ops
IsChain(tokens, ops) ==
    /\ Len(tokens) % 2 = 1
    /\ \A i \in 1..Len(tokens) :
          IF i % 2 = 1 THEN tokens[i].token_type = "LITERAL" ELSE tokens[i].token_type \in ops

\* the left-leaning tree (((p0 op1 p1) op2 p2) ... opn pn) of the first n tokens
RECURSIVE LeftTree(_, _)
LeftTree(tokens, n) ==
    IF n = 1 THEN LiteralExpression(tokens[1].literal_value)
    ELSE BinaryExpression(ExprKind(tokens[n - 1].token_type),
                          LeftTree(tokens, n - 2),
                          LiteralExpression(tokens[n].literal_value))

\* the expression and all its sub-expressions
RECURSIVE Nodes(_)
Nodes(expr) ==
    IF expr.kind \in {"Literal", "null"} THEN {expr}
    ELSE {expr} \cup Nodes(expr.lhs) \cup Nodes(expr.rhs)

Additive == {"Add", "Subtract"}

Multiplicative == {"Multiply", "Divide"}

\* C9: a chain  p0 op1 p1 ... opn pn  of literals with every op in {+,-}, or
\* every op in {*,/}, parses to the left-leaning tree; in every tree that Parse
\* builds, the right operand of an operator is an operation of the same
\* precedence only if it was written in parentheses; "8 - 3 - 2" prints 3.
C9_LeftAssociative ==
    /\ (Parsed /\ (IsChain(lexer.tokens, {"ADD", "SUB"}) \/ IsChain(lexer.tokens, {"MUL", "DIV"}))) =>
           /\ error.type = "NO_ERROR"
           /\ parser.expr = LeftTree(lexer.tokens, Len(lexer.tokens))
    /\ Parsed =>
           \A n \in Nodes(parser.expr) :
               /\ (n.kind \in Additive /\ n.rhs.kind \in Additive) => n.rhs \in parser.grouped
               /\ (n.kind \in Multiplicative /\ n.rhs.kind \in Multiplicative) =>
                      n.rhs \in parser.grouped
    /\ (pc = "done" /\ source = <<"8", " ", "-", " ", "3", " ", "-", " ", "2">>) =>
           output = <<[kind |-> "value", value |-> Float(3, 1)]>>

C9_Witness ==
    /\ pc = "done"
    /\ Len(lexer.tokens) = 5
    /\ IsChain(lexer.tokens, {"ADD", "SUB"})
    /\ TokenType(1) = "SUB" /\ TokenType(3) = "SUB"
    /\ Len(output) = 1 /\ output[1].kind = "value"
    /\ output[1].value # Evaluate(SubtractExpression(parser.expr.lhs.lhs,
                                       SubtractExpression(parser.expr.lhs.rhs, parser.expr.rhs)))

\* C10: in the tree that Parse builds an Add or Subtract node is an operand of
\* a Multiply or Divide node only if it was written in parentheses (never when
\* the tokens hold no parenthesis);  a + b * c  parses to a + (b * c)  and
\* a * b + c  to  (a * b) + c;  "2 + 3 * 4" prints 14 and "(2 + 3) * 4" prints 20.
C10_Precedence ==
    /\ Parsed =>
           /\ \A n \in Nodes(parser.expr) :
                  n.kind \in Multiplicative =>
                      /\ n.lhs.kind \in Additive => n.lhs \in parser.grouped
                      /\ n.rhs.kind \in Additive => n.rhs \in parser.grouped
           /\ (\A i \in 0..(Len(lexer.tokens) - 1) : TokenType(i) # "LEFT_PAREN") =>
                  parser.grouped = {}
    /\ (Parsed /\ Len(lexer.tokens) = 5 /\ IsChain(lexer.tokens, {"ADD", "SUB", "MUL", "DIV"})) =>
           LET lit(i) == LiteralExpression(lexer.tokens[i].literal_value)
               op(i)  == ExprKind(lexer.tokens[i].token_type)
           IN  /\ (op(2) \in Additive /\ op(4) \in Multiplicative) =>
                      parser.expr = BinaryExpression(op(2), lit(1),
                                        BinaryExpression(op(4), lit(3), lit(5)))
               /\ (op(2) \in Multiplicative /\ op(4) \in Additive) =>
                      parser.expr = BinaryExpression(op(4),
                                        BinaryExpression(op(2), lit(1), lit(3)), lit(5))
    /\ (pc = "done" /\ source = <<"2", " ", "+", " ", "3", " ", "*", " ", "4">>) =>
           output = <<[kind |-> "value", value |-> Float(14, 1)]>>
    /\ (pc = "done" /\ source = <<"(", "2", " ", "+", " ", "3", ")", " ", "*", " ", "4">>) =>
           output = <<[kind |-> "value", value |-> Float(20, 1)]>>

C10_Witness ==
    /\ pc = "done"
    /\ error.type = "NO_ERROR"
    /\ parser.expr.kind = "Multiply"
    /\ parser.expr.lhs.kind = "Add"
    /\ parser.expr.lhs \in parser.grouped
    /\ output = <<[kind |-> "value", value |-> Float(20, 1)]>>


\* ------------------------------------------------------------------------
\* Properties of the lines rendered from trees
\* ------------------------------------------------------------------------

\* C11: a line that is the fully parenthesized text of an expression tree is
\* scanned and parsed without an error, Parse builds that very tree, and the
\* one output of the line is the value Evaluate gives for the tree.
C11_RoundTrip ==
    (tree # NoExpr) =>
        /\ pc # "terminated"
        /\ ~IsError(lexer.error) /\ ~IsError(error)
        /\ pc \in {"evaluate", "done"} => parser.expr = tree
        /\ pc = "done" => output = <<[kind |-> "value", value |-> Evaluate(tree)]>>

C11_Witness ==
    /\ pc = "done"
    /\ tree \in TreesWith(MaxOps)
    /\ tree.kind = "Divide" /\ tree.rhs.kind = "Subtract" /\ tree.lhs.kind = "Literal"
    /\ tree.lhs.value = Float(5, 2)
    /\ output = <<[kind |-> "value", value |-> Float(5, 3)]>>

\* a value of the model of float
IsFloat(v) ==
    /\ DOMAIN v = {"num", "den"}
    /\ v.den >= 0
    /\ v.den = 0 => v.num \in {-1, 0, 1}
    /\ v.den > 0 => GCD(Abs(v.num), v.den) = 1

\* every pointer of the tree points to a node
RECURSIVE WellFormed(_)
WellFormed(expr) ==
    IF expr.kind = "Literal" THEN IsFloat(expr.value)
    ELSE /\ expr.kind \in BinaryKinds
         /\ WellFormed(expr.lhs)
         /\ WellFormed(expr.rhs)

\* Parse has returned NO_ERROR
ParsedTree == Parsed /\ ~IsError(error)

\* C12: Evaluate yields a value for every tree that Parse returns with NO_ERROR:
\* no pointer of the tree is null and the one output of the line is the value.
\* A Divide node whose right operand evaluates to zero yields an infinity or
\* NaN and no error, positive infinity for a positive left operand over the
\* literal 0; the line "1 / 0" prints positive infinity.
C12_EvaluateTotal ==
    ParsedTree =>
        /\ WellFormed(parser.expr)
        /\ IsFloat(Evaluate(parser.expr))
        /\ pc = "done" => output = <<[kind |-> "value", value |-> Evaluate(parser.expr)]>>
        /\ \A n \in Nodes(parser.expr) :
              (n.kind = "Divide" /\ Evaluate(n.rhs) = Zero) =>
                  /\ ~IsFinite(Evaluate(n))
                  /\ (n.rhs.kind = "Literal" /\ Evaluate(n.lhs).num > 0) => Evaluate(n) = PlusInf
        /\ (pc = "done" /\ source = <<"1", " ", "/", " ", "0">>) =>
              output = <<[kind |-> "value", value |-> PlusInf]>>

C12_Witness ==
    /\ pc = "done"
    /\ ParsedTree
    /\ parser.expr.kind = "Divide"
    /\ parser.expr.rhs.kind = "Subtract"
    /\ Evaluate(parser.expr.rhs) = Zero
    /\ output = <<[kind |-> "value", value |-> PlusInf]>>

\* ------------------------------------------------------------------------
\* The stages of ProcessInput
\* ------------------------------------------------------------------------

\* what holds at each statement of ProcessInput
StageInv ==
    /\ pc = "scan" => output = <<>> /\ lexer = NewLexer /\ parser = NewParser
    /\ pc = "parse" => output = <<>> /\ ~IsError(lexer.error) /\ parser = NewParser
    /\ pc = "evaluate" => output = <<>> /\ ~IsError(lexer.error) /\ ~IsError(error)
    /\ pc = "done" =>
          /\ Len(output) = 1
          /\ IF IsError(lexer.error)
             THEN /\ output = <<[kind |-> "error", error |-> lexer.error]>>
                  /\ lexer.error.type = "INVALID_CHAR"
                  /\ parser = NewParser
             ELSE IF IsError(error)
             THEN /\ output = <<[kind |-> "error", error |-> error]>>
                  /\ error.type \in {"INVALID_TOKEN", "END_OF_STREAM"}
             ELSE output = <<[kind |-> "value", value |-> Evaluate(parser.expr)]>>
          /\ BadOffsets(source) # {} => output[1].kind = "error" /\ output[1].error.type = "INVALID_CHAR"

\* the order in which ProcessInput passes from statement to statement
StageStep ==
    /\ pc = "scan" => pc' \in {"parse", "done", "terminated"}
    /\ pc = "parse" => pc' \in {"evaluate", "done"}
    /\ pc = "evaluate" => pc' = "done"
    /\ pc' = "parse" => pc = "scan" /\ ~IsError(lexer'.error)
    /\ pc' = "evaluate" => pc = "parse" /\ ~IsError(error')
    /\ pc = "scan" => parser' = parser
    /\ pc # "scan" => lexer' = lexer
    /\ Len(output') <= Len(output) + 1

Rank(at) ==
    CASE at = "scan"     -> 3
      [] at = "parse"    -> 2
      [] at = "evaluate" -> 1
      [] OTHER           -> 0

\* Scan: every iteration of the loop moves the cursor by at least one
\* character, except the one that returns the error, and the cursor stops at
\* the end of the line at the latest.  Parse: every call of Primary and every
\* iteration of the loops of Term and Factor consumes at least one token,
\* except the one call that raises the error.
ProgressInv ==
    /\ Scanned =>
          /\ lexer.position <= Len(source)
          /\ lexer.iterations <= lexer.position + (IF IsError(lexer.error) THEN 1 ELSE 0)
          /\ ~IsError(lexer.error) => lexer.position = Len(source)
    /\ Parsed =>
          /\ parser.steps <= parser.position + (IF parser.thrown THEN 1 ELSE 0)
          /\ parser.steps >= 1

RECURSIVE TreeSize(_)
TreeSize(expr) ==
    IF expr.kind = "null" THEN 0
    ELSE IF expr.kind = "Literal" THEN 1
    ELSE 1 + TreeSize(expr.lhs) + TreeSize(expr.rhs)

\* The nodes that no owner destroys once Parse has returned.  Term, Factor and
\* Primary hold what they have built in raw pointers (Expression* expr, rhs):
\* when `throw 1` unwinds them nothing deletes these nodes, nor the operands
\* that the unique_ptr members of such a node hold.  Without a throw the tree
\* that Term returns goes to the shared_ptr member expr of the parser.
Leaked(p) == IF p.thrown THEN p.allocated ELSE p.allocated - TreeSize(p.expr)

\* C13: whenever Parse returns an error, every node allocated during that
\* parse is owned and destroyed: no node is leaked.
C13_Claimed_NoLeakOnError ==
    (Parsed /\ IsError(error)) => Leaked(parser) = 0

\* ------------------------------------------------------------------------
\* The cursor of the parser and the caret of a diagnostic
\* ------------------------------------------------------------------------

\* C18: every read tokens[position] and token_positions[position] that Parse
\* makes has position < tokens.size(), and position never exceeds tokens.size().
C18_Claimed_CursorInBounds ==
    Parsed =>
        /\ ~parser.oob
        /\ parser.position <= Len(lexer.tokens)
        /\ error.type = "INVALID_TOKEN" => parser.position < Len(lexer.token_positions)

\* the four blanks before the echoed line
Indent == <<" ", " ", " ", " ">>

Spaces(n) == [i \in 1..n |-> " "]

\* operator<< of Error: the character named by INVALID_CHAR (NUL: the read
\* source[location] lies outside the line), the echoed line, the caret line
ErrorText(e, src) ==
    [ character |-> IF e.type = "INVALID_CHAR" THEN CharAt(src, e.location) ELSE NUL,
      echo      |-> Indent \o src,
      caret     |-> Spaces(e.location + Len(Indent)) \o <<"^">> ]

\* the column of the caret, counted from 0
CaretColumn(text) == CHOOSE c \in 0..(Len(text.caret) - 1) : text.caret[c + 1] = "^"

\* C19: every Error that Scan or Parse returns carries a valid caret position:
\* location < source length for INVALID_CHAR and INVALID_TOKEN, so that the
\* caret stands under the offending character of the echoed line, and
\* location = source length for END_OF_STREAM, the caret just after the line;
\* the caret is printed at column location + 4.
C19_Claimed_ValidCaret ==
    (pc = "done" /\ IsError(error)) =>
        LET text == ErrorText(error, source)
        IN  /\ CaretColumn(text) = error.location + Len(Indent)
            /\ error.type \in {"INVALID_CHAR", "INVALID_TOKEN"} =>
                  /\ error.location < Len(source)
                  /\ text.echo[CaretColumn(text) + 1] = CharAt(source, error.location)
            /\ error.type = "INVALID_CHAR" => text.character # NUL
            /\ error.type = "END_OF_STREAM" => error.location = Len(source)

\* ------------------------------------------------------------------------
\* Properties of main
\* ------------------------------------------------------------------------

\* C14: nothing is fatal: for every line other than "exit", also one with a
\* run of digits too large for std::stof, ProcessInput returns after it has
\* printed one value or one diagnostic, no exception leaves it, and main goes
\* on to the next prompt and the next line.
C14_Claimed_NothingFatal ==
    /\ pc # "terminated"
    /\ pc = "done" => Len(output) = 1 /\ ENABLED NextPrompt

\* C15: what ProcessInput writes for a line is a function of the line alone:
\* the same line gives the same output, whatever lines were processed before.
C15_Claimed_OutcomeIsFunctionOfLine ==
    /\ \A i, j \in 1..Len(history) :
          history[i].source = history[j].source => history[i].output = history[j].output
    /\ \A i \in 1..Len(history) :
          (pc = "done" /\ history[i].source = source) => history[i].output = output

====
